---- MODULE Spec2Model ----
(***************************************************************************)
(* Train seat reservation (src/app.py): class TrainSeatReservation over a  *)
(* shared SQLite database (tables seats and reservations), one instance    *)
(* with its own connection and in-memory mirror per run of main().         *)
(***************************************************************************)
EXTENDS Integers, Sequences, FiniteSets, TLC

(* ---------------- program constants ---------------- *)
N == 80
W == 7
PreBooked == {0, 1, 2, 15, 22, 23, 33, 34, 35}

(* ---------------- bounds of the model ---------------- *)
MaxRuns == 2       \* runs of main(), each constructing a TrainSeatReservation
MaxCalls == 2      \* method calls on live instances in one behaviour
MaxFails == 1      \* storage faults in one behaviour
NegK == 1          \* the smallest request is -NegK
MaxK == 8          \* small requests are -NegK..MaxK

Runs == 1..MaxRuns
SeatIds == 0..(N - 1)
FreeAtStart == N - Cardinality(PreBooked)
\* requests that leave a few seats, take every free seat, or exceed them
BigRequests == {FreeAtStart - 4, FreeAtStart, FreeAtStart + 1}
\* main() asks for 1..7 (number_input); book_seats itself takes any integer
ValidRequests == (1..MaxK) \cup BigRequests
InvalidRequests == (0 - NegK)..0
\* seat_ids given to update_seat_status when it is called directly: a
\* pre-booked seat, a negative index, an index past the list, and a free seat
\* followed by an index past the list
DirectIds == {<<0>>, <<0 - 1>>, <<N>>, <<3, N>>}
\* the requests made while runs overlap: one seat, two seats, more than the
\* free seats; and no seat
OverlapValid == {1, 2, FreeAtStart + 1}
OverlapInvalid == {0}

(* ---------------- Python helpers ---------------- *)
Min(a, b) == IF a < b THEN a ELSE b
Max(a, b) == IF a > b THEN a ELSE b

\* list(range(lo, hi))
Range(lo, hi) == [j \in 1..Max(hi - lo, 0) |-> lo + j - 1]

\* a slice that takes one element too many
Slice_plus1(s, k) == IF k >= 0 THEN SubSeq(s, 1, Min(k + 1, Len(s)))
                     ELSE SubSeq(s, 1, Max(Len(s) + k, 0))

\* s[:k], Python slicing (a negative k drops the last -k elements)
Slice(s, k) == IF k >= 0 THEN SubSeq(s, 1, Min(k, Len(s)))
               ELSE SubSeq(s, 1, Max(Len(s) + k, 0))

\* str(i) for a seat id, as a sequence of characters
Digit(d) == CASE d = 0 -> "0" [] d = 1 -> "1" [] d = 2 -> "2" [] d = 3 -> "3"
              [] d = 4 -> "4" [] d = 5 -> "5" [] d = 6 -> "6" [] d = 7 -> "7"
              [] d = 8 -> "8" [] d = 9 -> "9"
StrNat(i) == IF i < 10 THEN <<Digit(i)>> ELSE <<Digit(i \div 10), Digit(i % 10)>>
Str(i) == IF i < 0 THEN <<"-">> \o StrNat(0 - i) ELSE StrNat(i)

\* ",".join(map(str, seat_ids))
RECURSIVE Join(_)
Join(ids) == IF Len(ids) = 0 THEN <<>>
             ELSE IF Len(ids) = 1 THEN Str(ids[1])
             ELSE Str(ids[1]) \o <<",">> \o Join(Tail(ids))

\* self.seats[i]: the position a list index denotes (a negative index counts
\* from the end), and whether the index raises IndexError
ListIndex(i) == IF i < 0 THEN N + i ELSE i
IndexOk(i) == 0 - N <= i /\ i < N

(* ---------------- state ---------------- *)
VARIABLES
  tables,     \* the tables of the database file: a subset of {"seats", "reservations"}
  db_seats,   \* committed seats table: seat_id -> status (no rows before init)
  db_res,     \* committed reservations table: seat_ids texts, by reservation_id
  inst,       \* inst[r]: "none", "building" (run r is inside
              \* TrainSeatReservation()), "live" (it holds the instance),
              \* "failed" (the constructor raised and the half-built instance
              \* is not dropped yet), "done"
  pc,         \* pc[r]: the line of src/app.py that run r's call in progress
              \* executes next (0: no call in progress)
  call,       \* call[r]: the call in progress: op, k, ids (the seat_ids of
              \* update_seat_status), j (position in ids), seats0 (self.seats
              \* when the call began)
  seats,      \* seats[r]: self.seats of run r's instance (list indexed from 0)
  tx_seats,   \* tx_seats[r]: seat ids UPDATEd in r's open transaction
  tx_res,     \* tx_res[r]: texts INSERTed in r's open transaction
  lock,       \* lock[r]: the transaction of r's connection: "none", "begun"
              \* (BEGIN executed, no file lock), "shared" (it has read),
              \* "reserved" (it has written), "pending" (its commit was
              \* refused while a reader held the file); or "reading": no
              \* transaction, a SELECT whose rows are not fetched yet holds
              \* the shared lock
  schema,     \* schema[r]: the tables in the schema that r's connection has
              \* read (Unread before its first statement)
  stale,      \* stale[r]: the tables whose CREATE TABLE IF NOT EXISTS the
              \* connection compiled when its schema did not have the table:
              \* the cached statement asks for the write lock before it sees
              \* that the table exists
  held,       \* held[r]: the tables of stale[r] whose cached statement was
              \* executing when a call on the live instance raised: the
              \* cursor of that call keeps it in use for as long as the
              \* caller keeps the exception (traceback, frame, cursor)
  last,       \* the last step: the call it belongs to (op, run, k, the ids
              \* given to update_seat_status), the ids returned (ret), the
              \* statuses returned by load_seats (list), and the outcome
              \* ("running": the call goes on, "ok": returned, "none":
              \* returned None, "raised")
  pre,        \* the committed tables before the last step, and the caller's
              \* self.seats when the call began
  ncalls,     \* method calls begun on live instances
  nfails,     \* storage faults
  nraised,    \* calls and constructions that raised
  ndirect     \* direct calls of update_seat_status, create_tables,
              \* init_seats and load_seats

vars == <<tables, db_seats, db_res, inst, pc, call, seats, tx_seats, tx_res, lock,
          schema, stale, held, last, pre, ncalls, nfails, nraised, ndirect>>

Unread == {"unread"}

EmptyTable == [i \in {} |-> 0]

NoCall == [op |-> "none", k |-> 0, ids |-> <<>>, j |-> 0, seats0 |-> EmptyTable]

Snapshot(c) == [seats |-> c.seats0, db_seats |-> db_seats, db_res |-> db_res]

Init ==
  /\ tables = {}
  /\ db_seats = EmptyTable
  /\ db_res = <<>>
  /\ inst = [r \in Runs |-> "none"]
  /\ pc = [r \in Runs |-> 0]
  /\ call = [r \in Runs |-> NoCall]
  /\ seats = [r \in Runs |-> EmptyTable]
  /\ tx_seats = [r \in Runs |-> {}]
  /\ tx_res = [r \in Runs |-> <<>>]
  /\ lock = [r \in Runs |-> "none"]
  /\ schema = [r \in Runs |-> Unread]
  /\ stale = [r \in Runs |-> {}]
  /\ held = [r \in Runs |-> {}]
  /\ last = [op |-> "none", r |-> 0, k |-> 0, ids |-> <<>>, ret |-> <<>>,
             list |-> EmptyTable, outcome |-> "none"]
  /\ pre = [seats |-> EmptyTable, db_seats |-> EmptyTable, db_res |-> <<>>]
  /\ ncalls = 0 /\ nfails = 0 /\ nraised = 0 /\ ndirect = 0

(* ---------------- TrainSeatReservation ---------------- *)
\* an initialisation that forgets the pre-booked seats
InitialSeats_nopre == [i \in 0..(N - 1) |-> 0]
\* init_seats: the rows its INSERTs write
InitialSeats == [i \in SeatIds |-> IF i \notin PreBooked THEN 0 ELSE 1]

\* load_seats: the statuses of the rows, in seat_id order
load_seats(table) == [i \in 0..(Cardinality(DOMAIN table) - 1) |-> table[i]]

\* display_seats
display_seats(s) == [i \in DOMAIN s |-> IF s[i] = 1 THEN "X" ELSE "O"]

\* count_available_seats
count_available_seats(s) == Cardinality({i \in DOMAIN s : s[i] = 0})

\* [i for i in range(lo, hi) if self.seats[i] == 0]
FreeIn(s, lo, hi) == SelectSeq(Range(lo, hi), LAMBDA i : s[i] = 0)
available_seats(s) == FreeIn(s, 0, N)
row_seats(s, row_start) == FreeIn(s, row_start, Min(row_start + W, N))

\* range(0, 80, 7)
RowStarts == {r * W : r \in 0..((N - 1) \div W)}

\* rows whose free seats satisfy the request, and the first of them
RowsWith(s, k) == {rs \in RowStarts : Len(row_seats(s, rs)) >= k}
\* a row loop that keeps the last satisfying row instead of stopping at the first
FirstRow_last(s, k) == CHOOSE rs \in RowsWith(s, k) : \A o \in RowsWith(s, k) : rs >= o
FirstRow(s, k) == CHOOSE rs \in RowsWith(s, k) : \A o \in RowsWith(s, k) : rs <= o

\* a free-count test that also refuses requests wider than a row
Insufficient_cap(s, k) == Len(available_seats(s)) < k \/ k > W
\* an availability test that lets a request one above the free count through
Insufficient_minus1(s, k) == Len(available_seats(s)) < k - 1

\* book_seats: the test that makes it return None
Insufficient(s, k) == Len(available_seats(s)) < k

\* a fallback that skips the first available seat
Selected_skipfirst(s, k) ==
  IF RowsWith(s, k) # {} THEN Slice(row_seats(s, FirstRow(s, k)), k)
  ELSE Slice(Tail(available_seats(s)), k)

\* book_seats: the ids it reserves when it does not return None
Selected(s, k) ==
  IF RowsWith(s, k) # {} THEN Slice(row_seats(s, FirstRow(s, k)), k)
  ELSE Slice(available_seats(s), k)

Elems(ids) == {ids[j] : j \in 1..Len(ids)}

\* self.seats[seat_id] = 1
Mark(s, id) == [i \in DOMAIN s |-> IF i = ListIndex(id) THEN 1 ELSE s[i]]

\* an update_seat_status that never commits its UPDATEs
Persist_nocommit(table, idset) == table

\* the seats table after committing UPDATE ... SET status = 1 WHERE seat_id = id
\* for the ids (an id that is no seat_id matches no row)
Persist(table, idset) == [i \in DOMAIN table |-> IF i \in idset THEN 1 ELSE table[i]]

\* a commit that replaces the rows of the reservations table
CommitRecords_replace(log, inserted) == inserted

\* the reservations table after committing the INSERTed texts (AUTOINCREMENT:
\* each gets the next reservation_id)
CommitRecords(log, inserted) == log \o inserted

(* ---------------- SQLite file locking ---------------- *)
\* A statement that reads needs the shared lock, refused while another
\* connection holds the pending lock; one that writes needs the reserved lock,
\* refused while another connection holds it; a commit of writes needs the
\* exclusive lock, refused while another connection holds the shared lock.
\* A refused statement raises (database is locked) when the busy timeout ends.
ReadBlocked(r) ==
  /\ lock[r] \in {"none", "begun"}
  /\ \E q \in Runs \ {r} : lock[q] = "pending"
WriteBlocked(r) ==
  /\ lock[r] \in {"none", "begun", "shared"}
  /\ \E q \in Runs \ {r} : lock[q] \in {"reserved", "pending"}
CommitBlocked(r) ==
  /\ lock[r] \in {"reserved", "pending"}
  /\ \E q \in Runs \ {r} : lock[q] \in {"shared", "reading"}

\* the transaction of a connection after it read, and after it wrote
AfterRead(l) == IF l = "begun" THEN "shared" ELSE l
AfterWrite(l) == IF l = "pending" THEN "pending" ELSE "reserved"
\* ... after an UPDATE or INSERT was refused: Python has executed BEGIN
AfterRefused(l) == IF l = "none" THEN "begun" ELSE l
\* ... while a SELECT has rows to fetch, and when they are fetched: with no
\* transaction the shared lock is held until then, in a transaction it is kept
AfterExecute(l) == IF l = "none" THEN "reading" ELSE IF l = "begun" THEN "shared" ELSE l
AfterFetch(l) == IF l = "reading" THEN "none" ELSE l

(* ---------------- bookkeeping of the steps ---------------- *)
Record(r, c, outcome, ret) ==
  [op |-> c.op, r |-> r, k |-> c.k, ids |-> c.ids, ret |-> ret, list |-> EmptyTable,
   outcome |-> outcome]

\* the call of run r goes on at the given line
Continue(r, line, c) ==
  /\ pc' = [pc EXCEPT ![r] = line]
  /\ call' = [call EXCEPT ![r] = c]
  /\ last' = Record(r, c, "running", <<>>)
  /\ pre' = Snapshot(c)
  /\ UNCHANGED <<inst, nraised>>

\* the call of run r ends: it returns ret, or returns None, or raises; a
\* constructor that returns gives the live instance
EndsWith(r, outcome, ret, list) ==
  /\ pc' = [pc EXCEPT ![r] = 0]
  /\ call' = [call EXCEPT ![r] = NoCall]
  /\ inst' = [inst EXCEPT ![r] = IF @ # "building" THEN @
                                 ELSE IF outcome = "raised" THEN "failed" ELSE "live"]
  /\ last' = [Record(r, call[r], outcome, ret) EXCEPT !.list = list]
  /\ pre' = Snapshot(call[r])
  /\ nraised' = IF outcome = "raised" THEN nraised + 1 ELSE nraised

Ends(r, outcome, ret) == EndsWith(r, outcome, ret, EmptyTable)

\* the line after init_seats returns: load_seats in the constructor (line
\* 10); a call of create_tables or init_seats on a live instance returns
AfterInit(r) == IF inst[r] = "building" THEN 60 ELSE 0

(* ---------------- create_tables, init_seats, load_seats ---------------- *)
\* main(): reservation_system = TrainSeatReservation() begins (create_connection);
\* runs start in order
Construct(r) ==
  /\ inst[r] = "none"
  /\ IF r = 1 THEN TRUE ELSE inst[r - 1] # "none"
  /\ inst' = [inst EXCEPT ![r] = "building"]
  /\ pc' = [pc EXCEPT ![r] = 38]
  /\ call' = [call EXCEPT ![r] = [NoCall EXCEPT !.op = "init"]]
  /\ last' = Record(r, call'[r], "running", <<>>)
  /\ pre' = Snapshot(call'[r])
  /\ UNCHANGED <<tables, db_seats, db_res, seats, tx_seats, tx_res, lock, schema,
                 stale, held, ncalls, nfails, nraised, ndirect>>

\* create_tables() called on a live instance begins
CreateTables(r) ==
  /\ inst[r] = "live" /\ pc[r] = 0
  /\ ncalls < MaxCalls
  /\ Continue(r, 38, [NoCall EXCEPT !.op = "create", !.seats0 = seats[r]])
  /\ ncalls' = ncalls + 1
  /\ ndirect' = ndirect + 1
  /\ UNCHANGED <<tables, db_seats, db_res, seats, tx_seats, tx_res, lock, schema,
                 stale, held, nfails>>

\* init_seats() called on a live instance begins
InitSeats(r) ==
  /\ inst[r] = "live" /\ pc[r] = 0
  /\ ncalls < MaxCalls
  /\ Continue(r, 48, [NoCall EXCEPT !.op = "init_seats", !.seats0 = seats[r]])
  /\ ncalls' = ncalls + 1
  /\ ndirect' = ndirect + 1
  /\ UNCHANGED <<tables, db_seats, db_res, seats, tx_seats, tx_res, lock, schema,
                 stale, held, nfails>>

\* load_seats() called on a live instance begins
CallLoadSeats(r) ==
  /\ inst[r] = "live" /\ pc[r] = 0
  /\ ncalls < MaxCalls
  /\ Continue(r, 60, [NoCall EXCEPT !.op = "load", !.seats0 = seats[r]])
  /\ ncalls' = ncalls + 1
  /\ ndirect' = ndirect + 1
  /\ UNCHANGED <<tables, db_seats, db_res, seats, tx_seats, tx_res, lock, schema,
                 stale, held, nfails>>

\* the schema the connection compiles a statement with: the one it has read,
\* read from the file by its first statement
Known(r) == IF schema[r] = Unread THEN tables ELSE schema[r]

\* cursor.execute of CREATE TABLE IF NOT EXISTS t, the call going on at line
\* next. The statement is compiled when the connection first executes it (in
\* the constructor) and cached. Compiled with a schema that lacks t, it takes
\* the write lock (kept when a transaction is open), then makes the table
\* (committed at once), or finds that the file has it and is compiled anew.
\* Compiled with a schema that has t, it only reads the schema.
\* While the caller keeps the exception of a call in which the cached
\* statement raised, that statement is in use and sqlite3 compiles the text
\* anew, leaving the cache as it is: the connection of a live instance knows
\* both tables, so the new statement only reads. Whether the caller has kept
\* the exception is its choice (anew); having dropped it, it cannot get it back.
CreateTable(r, t, next) ==
  \E anew \in {b \in BOOLEAN : b => t \in held[r]} :
    LET creating == IF inst[r] = "building" THEN t \notin Known(r)
                    ELSE t \in stale[r] /\ ~anew IN
    /\ UNCHANGED <<db_seats, db_res, seats, tx_seats, tx_res, ncalls, nfails, ndirect>>
    /\ IF creating
       THEN IF WriteBlocked(r)
            THEN /\ Ends(r, "raised", <<>>)
                 /\ stale' = [stale EXCEPT ![r] = @ \cup {t}]
                 /\ held' = [held EXCEPT ![r] = IF inst[r] = "live" THEN @ \cup {t} ELSE @]
                 /\ schema' = [schema EXCEPT ![r] = Known(r)]
                 /\ UNCHANGED <<tables, lock>>
            ELSE IF t \in tables
            THEN /\ stale' = [stale EXCEPT ![r] = @ \ {t}]
                 /\ held' = [held EXCEPT ![r] = @ \ {t}]
                 /\ schema' = [schema EXCEPT ![r] = tables]
                 /\ lock' = [lock EXCEPT ![r] = IF @ = "none" THEN @ ELSE AfterWrite(@)]
                 /\ Continue(r, next, call[r])
                 /\ UNCHANGED tables
            ELSE /\ tables' = tables \cup {t}
                 /\ stale' = [stale EXCEPT ![r] = @ \cup {t}]
                 /\ schema' = [schema EXCEPT ![r] = tables']
                 /\ Continue(r, next, call[r])
                 /\ UNCHANGED <<lock, held>>
       ELSE IF ReadBlocked(r)
            THEN /\ Ends(r, "raised", <<>>)
                 /\ schema' = [schema EXCEPT ![r] = Known(r)]
                 /\ UNCHANGED <<tables, lock, stale, held>>
            ELSE /\ lock' = [lock EXCEPT ![r] = AfterRead(@)]
                 /\ schema' = [schema EXCEPT ![r] = tables]
                 /\ Continue(r, next, call[r])
                 /\ UNCHANGED <<tables, stale, held>>

\* create_tables, line 38: cursor.execute(create_seats_table)
CreateSeatsTable(r) ==
  /\ pc[r] = 38
  /\ CreateTable(r, "seats", 39)

\* create_tables, line 39: cursor.execute(create_reservations_table)
CreateReservationsTable(r) ==
  /\ pc[r] = 39
  /\ CreateTable(r, "reservations", 40)

\* connection.commit(), the call going on at line next or returning ret: it
\* commits what the connection's open transaction holds, and is refused,
\* keeping the pending lock, while another connection holds the shared lock
CommitTx(r, next, ret) ==
  IF CommitBlocked(r)
  THEN /\ lock' = [lock EXCEPT ![r] = "pending"]
       /\ Ends(r, "raised", <<>>)
       /\ UNCHANGED <<db_seats, db_res, tx_seats, tx_res>>
  ELSE /\ db_seats' = Persist(db_seats, tx_seats[r])
       /\ db_res' = CommitRecords(db_res, tx_res[r])
       /\ tx_seats' = [tx_seats EXCEPT ![r] = {}]
       /\ tx_res' = [tx_res EXCEPT ![r] = <<>>]
       /\ lock' = [lock EXCEPT ![r] = "none"]
       /\ IF next = 0 THEN Ends(r, "ok", ret) ELSE Continue(r, next, call[r])

\* create_tables, line 40: self.connection.commit()
CommitTables(r) ==
  /\ pc[r] = 40
  /\ CommitTx(r, 48, <<>>)
  /\ UNCHANGED <<tables, seats, schema, stale, held, ncalls, nfails, ndirect>>

\* init_seats, line 48: cursor.execute of SELECT COUNT(*) FROM seats. Until its
\* row is fetched the statement holds the shared lock; in a transaction (one
\* is open only when init_seats is called on a live instance) the lock is kept.
CountSeats(r) ==
  /\ pc[r] = 48
  /\ IF ReadBlocked(r)
     THEN Ends(r, "raised", <<>>) /\ UNCHANGED lock
     ELSE /\ lock' = [lock EXCEPT ![r] = AfterExecute(@)]
          /\ Continue(r, 49, call[r])
  /\ UNCHANGED <<tables, db_seats, db_res, seats, tx_seats, tx_res, schema, stale, held,
                 ncalls, nfails, ndirect>>

\* init_seats, lines 49-51: count = cursor.fetchone()[0] and the test of count
\* (an UPDATE of the connection's open transaction changes no count)
TestCount(r) ==
  /\ pc[r] = 49
  /\ lock' = [lock EXCEPT ![r] = AfterFetch(@)]
  /\ IF Cardinality(DOMAIN db_seats) = 0 THEN Continue(r, 54, call[r])
     ELSE IF AfterInit(r) = 0 THEN Ends(r, "ok", <<>>)
     ELSE Continue(r, AfterInit(r), call[r])
  /\ UNCHANGED <<tables, db_seats, db_res, seats, tx_seats, tx_res, schema, stale, held,
                 ncalls, nfails, ndirect>>

\* init_seats, lines 52-54: the loop of the 80 INSERTs, in a transaction that
\* Python begins before the first one. No other connection can read the rows
\* before the commit. The first INSERT raises when the reserved lock is
\* refused, and (UNIQUE constraint failed, the reserved lock being kept) when
\* another run committed the rows after this run's COUNT(*).
InsertSeats(r) ==
  /\ pc[r] = 54
  /\ IF WriteBlocked(r)
     THEN /\ lock' = [lock EXCEPT ![r] = AfterRefused(@)]
          /\ Ends(r, "raised", <<>>)
     ELSE IF Cardinality(DOMAIN db_seats) # 0
     THEN /\ lock' = [lock EXCEPT ![r] = AfterWrite(@)]
          /\ Ends(r, "raised", <<>>)
     ELSE /\ lock' = [lock EXCEPT ![r] = AfterWrite(@)]
          /\ Continue(r, 55, call[r])
  /\ UNCHANGED <<tables, db_seats, db_res, seats, tx_seats, tx_res, schema, stale, held,
                 ncalls, nfails, ndirect>>

\* init_seats, line 55: self.connection.commit() of the 80 rows
CommitSeats(r) ==
  /\ pc[r] = 55
  /\ IF CommitBlocked(r)
     THEN /\ lock' = [lock EXCEPT ![r] = "pending"]
          /\ Ends(r, "raised", <<>>)
          /\ UNCHANGED db_seats
     ELSE /\ db_seats' = InitialSeats
          /\ lock' = [lock EXCEPT ![r] = "none"]
          /\ IF AfterInit(r) = 0 THEN Ends(r, "ok", <<>>)
             ELSE Continue(r, AfterInit(r), call[r])
  /\ UNCHANGED <<tables, db_res, seats, tx_seats, tx_res, schema, stale, held, ncalls, nfails, ndirect>>

\* load_seats, line 60: cursor.execute of SELECT seat_id, status FROM seats.
\* Until its rows are fetched the statement holds the shared lock; in a
\* transaction (one is open only when load_seats is called on a live instance)
\* the lock is kept.
SelectSeats(r) ==
  /\ pc[r] = 60
  /\ IF ReadBlocked(r)
     THEN Ends(r, "raised", <<>>) /\ UNCHANGED lock
     ELSE /\ lock' = [lock EXCEPT ![r] = AfterExecute(@)]
          /\ Continue(r, 61, call[r])
  /\ UNCHANGED <<tables, db_seats, db_res, seats, tx_seats, tx_res, schema, stale, held,
                 ncalls, nfails, ndirect>>

\* load_seats, line 61: it returns the statuses of cursor.fetchall(), the rows
\* as the connection sees them (the UPDATEs of its open transaction
\* included); __init__, line 10, assigns them to self.seats
LoadSeats(r) ==
  /\ pc[r] = 61
  /\ lock' = [lock EXCEPT ![r] = AfterFetch(@)]
  /\ LET list == load_seats(Persist(db_seats, tx_seats[r])) IN
       /\ seats' = [seats EXCEPT ![r] = IF inst[r] = "building" THEN list ELSE @]
       /\ EndsWith(r, "ok", <<>>, list)
  /\ UNCHANGED <<tables, db_seats, db_res, tx_seats, tx_res, schema, stale, held,
                 ncalls, nfails, ndirect>>

(* ---------------- book_seats, update_seat_status ---------------- *)
\* the line at which update_seat_status(ids) goes on at position j
LoopLine(ids, j) == IF j <= Len(ids) THEN 95 ELSE 97

\* book_seats(k), lines 73-89 up to the call of update_seat_status: it returns
\* None, or selects the ids from self.seats
BookSeats(r, k) ==
  /\ inst[r] = "live" /\ pc[r] = 0
  /\ ncalls < MaxCalls
  /\ LET ids == Selected(seats[r], k)
         c == [op |-> "book", k |-> k, ids |-> ids, j |-> 1, seats0 |-> seats[r]]
     IN IF Insufficient(seats[r], k)
        THEN /\ last' = Record(r, [c EXCEPT !.ids = <<>>], "none", <<>>)
             /\ pre' = Snapshot(c)
             /\ UNCHANGED <<pc, call, inst, nraised>>
        ELSE Continue(r, LoopLine(ids, 1), c)
  /\ ncalls' = ncalls + 1
  /\ UNCHANGED <<tables, db_seats, db_res, seats, tx_seats, tx_res, lock, schema, stale, held,
                 nfails, ndirect>>

\* update_seat_status(ids) called on a live instance begins
UpdateSeatStatus(r, ids) ==
  /\ inst[r] = "live" /\ pc[r] = 0
  /\ ncalls < MaxCalls
  /\ Continue(r, LoopLine(ids, 1),
              [op |-> "update", k |-> 0, ids |-> ids, j |-> 1, seats0 |-> seats[r]])
  /\ ncalls' = ncalls + 1
  /\ ndirect' = ndirect + 1
  /\ UNCHANGED <<tables, db_seats, db_res, seats, tx_seats, tx_res, lock, schema, stale, held, nfails>>

\* update_seat_status, line 95: self.seats[seat_id] = 1 (IndexError for an
\* index outside the list)
MarkSeat(r) ==
  /\ pc[r] = 95
  /\ LET id == call[r].ids[call[r].j] IN
       IF IndexOk(id)
       THEN /\ seats' = [seats EXCEPT ![r] = Mark(@, id)]
            /\ Continue(r, 96, call[r])
       ELSE /\ Ends(r, "raised", <<>>)
            /\ UNCHANGED seats
  /\ UNCHANGED <<tables, db_seats, db_res, tx_seats, tx_res, lock, schema, stale, held,
                 ncalls, nfails, ndirect>>

\* update_seat_status, line 96: UPDATE seats SET status = 1 WHERE seat_id = ?
UpdateSeat(r) ==
  /\ pc[r] = 96
  /\ LET c == call[r] IN
       IF WriteBlocked(r)
       THEN /\ lock' = [lock EXCEPT ![r] = AfterRefused(@)]
            /\ Ends(r, "raised", <<>>)
            /\ UNCHANGED tx_seats
       ELSE /\ tx_seats' = [tx_seats EXCEPT ![r] = @ \cup {c.ids[c.j]}]
            /\ lock' = [lock EXCEPT ![r] = AfterWrite(@)]
            /\ Continue(r, LoopLine(c.ids, c.j + 1), [c EXCEPT !.j = @ + 1])
  /\ UNCHANGED <<tables, db_seats, db_res, seats, tx_res, schema, stale, held, ncalls, nfails, ndirect>>

\* update_seat_status, line 97: INSERT INTO reservations (seat_ids) VALUES (?)
InsertReservation(r) ==
  /\ pc[r] = 97
  /\ IF WriteBlocked(r)
     THEN /\ lock' = [lock EXCEPT ![r] = AfterRefused(@)]
          /\ Ends(r, "raised", <<>>)
          /\ UNCHANGED tx_res
     ELSE /\ tx_res' = [tx_res EXCEPT ![r] = @ \o <<Join(call[r].ids)>>]
          /\ lock' = [lock EXCEPT ![r] = AfterWrite(@)]
          /\ Continue(r, 98, call[r])
  /\ UNCHANGED <<tables, db_seats, db_res, seats, tx_seats, schema, stale, held, ncalls, nfails, ndirect>>

\* update_seat_status, line 98: self.connection.commit(); book_seats then
\* returns the ids (lines 84, 89)
Commit(r) ==
  /\ pc[r] = 98
  /\ CommitTx(r, 0, IF call[r].op = "book" THEN call[r].ids ELSE <<>>)
  /\ UNCHANGED <<tables, seats, schema, stale, held, ncalls, nfails, ndirect>>

(* ---------------- storage faults, end of a run ---------------- *)
StatementLines == {38, 39, 48, 54, 60, 96, 97}
WriteLines == {54, 96, 97}
\* the table of the CREATE TABLE IF NOT EXISTS that a line executes
Created(line) == IF line = 38 THEN {"seats"} ELSE IF line = 39 THEN {"reservations"} ELSE {}
CommitLines == {40, 55, 98}

\* the statement that run r executes next raises for a reason of its own.
\* With rolled_back it is a storage error on which SQLite rolls the
\* transaction back (disk I/O error, disk full). Otherwise the statement is
\* refused (database is locked) because of another process: a commit of writes
\* (the process reads the file) keeps the pending lock; an INSERT or UPDATE
\* (the process writes) leaves the transaction that Python has begun before
\* it; a CREATE TABLE or SELECT leaves the transaction as it is. The cursor
\* of the call keeps the statement that raised in use.
Fault(r) ==
  /\ nfails < MaxFails
  /\ \/ pc[r] \in StatementLines
     \/ pc[r] \in CommitLines /\ lock[r] \in {"reserved", "pending"}
  /\ \E rolled_back \in BOOLEAN :
       IF rolled_back
       THEN /\ tx_seats' = [tx_seats EXCEPT ![r] = {}]
            /\ tx_res' = [tx_res EXCEPT ![r] = <<>>]
            /\ lock' = [lock EXCEPT ![r] = "none"]
       ELSE /\ lock' = [lock EXCEPT ![r] = IF pc[r] \in CommitLines THEN "pending"
                                          ELSE IF pc[r] \in WriteLines THEN AfterRefused(@)
                                          ELSE @]
            /\ UNCHANGED <<tx_seats, tx_res>>
  /\ Ends(r, "raised", <<>>)
  /\ nfails' = nfails + 1
  /\ held' = [held EXCEPT ![r] = IF inst[r] = "live" THEN @ \cup (Created(pc[r]) \cap stale[r])
                                  ELSE @]
  /\ UNCHANGED <<tables, db_seats, db_res, seats, schema, stale, ncalls, ndirect>>

\* main() returns, or the exception of a failed construction is dropped: the
\* instance and its connection are dropped, an open transaction is rolled back
Exit(r) ==
  /\ \/ inst[r] = "live" /\ pc[r] = 0
     \/ inst[r] = "failed"
  /\ inst' = [inst EXCEPT ![r] = "done"]
  /\ seats' = [seats EXCEPT ![r] = EmptyTable]
  /\ tx_seats' = [tx_seats EXCEPT ![r] = {}]
  /\ tx_res' = [tx_res EXCEPT ![r] = <<>>]
  /\ lock' = [lock EXCEPT ![r] = "none"]
  /\ schema' = [schema EXCEPT ![r] = Unread]
  /\ stale' = [stale EXCEPT ![r] = {}]
  /\ held' = [held EXCEPT ![r] = {}]
  /\ last' = [op |-> "exit", r |-> r, k |-> 0, ids |-> <<>>, ret |-> <<>>,
              list |-> EmptyTable, outcome |-> "ok"]
  /\ pre' = Snapshot(NoCall)
  /\ UNCHANGED <<tables, db_seats, db_res, pc, call, ncalls, nfails, nraised, ndirect>>

\* the steps of the program, shared by both specifications: everything but
\* the start of a run and the requests made
Steps ==
  \/ \E r \in Runs : CreateSeatsTable(r)
  \/ \E r \in Runs : CreateReservationsTable(r)
  \/ \E r \in Runs : CommitTables(r)
  \/ \E r \in Runs : CountSeats(r)
  \/ \E r \in Runs : TestCount(r)
  \/ \E r \in Runs : InsertSeats(r)
  \/ \E r \in Runs : CommitSeats(r)
  \/ \E r \in Runs : SelectSeats(r)
  \/ \E r \in Runs : LoadSeats(r)
  \/ \E r \in Runs : MarkSeat(r)
  \/ \E r \in Runs : UpdateSeat(r)
  \/ \E r \in Runs : InsertReservation(r)
  \/ \E r \in Runs : Commit(r)
  \/ \E r \in Runs, ids \in DirectIds : UpdateSeatStatus(r, ids)
  \/ \E r \in Runs : CreateTables(r)
  \/ \E r \in Runs : InitSeats(r)
  \/ \E r \in Runs : CallLoadSeats(r)
  \/ \E r \in Runs : Fault(r)
  \/ \E r \in Runs : Exit(r)

\* runs of main() that overlap: the statements of their calls interleave
Next ==
  \/ \E r \in Runs : Construct(r)
  \/ \E r \in Runs, k \in OverlapValid : BookSeats(r, k)
  \/ \E r \in Runs, k \in OverlapInvalid : BookSeats(r, k)
  \/ Steps

Spec == Init /\ [][Next]_vars

\* a run of main() that starts when every earlier run has ended
Restart(r) ==
  /\ \A q \in Runs \ {r} : inst[q] \in {"none", "done"}
  /\ Construct(r)

\* runs of main() one after another, with every request
NextInTurn ==
  \/ \E r \in Runs : Restart(r)
  \/ \E r \in Runs, k \in ValidRequests : BookSeats(r, k)
  \/ \E r \in Runs, k \in InvalidRequests : BookSeats(r, k)
  \/ Steps

SpecInTurn == Init /\ [][NextInTurn]_vars

TypeOK ==
  /\ tables \subseteq {"seats", "reservations"}
  /\ DOMAIN db_seats \in {{}, SeatIds}
  /\ DOMAIN db_seats # {} => tables = {"seats", "reservations"}
  /\ \A r \in Runs : inst[r] = "live" => DOMAIN seats[r] = SeatIds
  /\ \A r \in Runs : pc[r] # 0 => inst[r] \in {"building", "live"}
  /\ \A r \in Runs : lock[r] = "reading" =>
       (pc[r] \in {49, 61} /\ tx_seats[r] = {} /\ tx_res[r] = <<>>)
  /\ \A r \in Runs : pc[r] \in {49, 61} =>
       lock[r] \in {"reading", "shared", "reserved", "pending"}
  /\ \A r \in Runs : inst[r] = "building" => (tx_seats[r] = {} /\ tx_res[r] = <<>>)
  /\ \A r \in Runs : held[r] \subseteq stale[r]
  /\ \A r \in Runs : inst[r] = "live" => schema[r] = {"seats", "reservations"}
  /\ ncalls \in 0..MaxCalls
  /\ \A r, q \in Runs :
       (lock[r] \in {"reserved", "pending"} /\ lock[q] \in {"reserved", "pending"}) => r = q

(* ======================= properties ======================= *)
BookedIn(s) == {i \in DOMAIN s : s[i] = 1}
FreeOf(s) == {i \in DOMAIN s : s[i] = 0}
Ascending(ids) == \A a, b \in 1..Len(ids) : a < b => ids[a] < ids[b]
\* the k smallest elements of a set of ids
LowestK(S, k) == {i \in S : Cardinality({j \in S : j < i}) < k}
\* the free ids of row rw, rows being the blocks [7*rw, min(7*rw + 7, 80))
RowFree(s, rw) == {i \in FreeOf(s) : 7 * rw <= i /\ i < Min(7 * rw + 7, 80)}
RowNumbers == 0..11

\* the seat ids written in a seat_ids text
DigitVal(c) == CASE c = "0" -> 0 [] c = "1" -> 1 [] c = "2" -> 2 [] c = "3" -> 3
                 [] c = "4" -> 4 [] c = "5" -> 5 [] c = "6" -> 6 [] c = "7" -> 7
                 [] c = "8" -> 8 [] c = "9" -> 9
RECURSIVE Num(_)
Num(tok) == IF Len(tok) = 1 THEN DigitVal(tok[1])
            ELSE 10 * Num(SubSeq(tok, 1, Len(tok) - 1)) + DigitVal(tok[Len(tok)])
CommaAt(t) == IF \E j \in 1..Len(t) : t[j] = ","
              THEN CHOOSE j \in 1..Len(t) : t[j] = "," /\ \A h \in 1..(j - 1) : t[h] # ","
              ELSE Len(t) + 1
SignedNum(tok) == IF tok[1] = "-" THEN 0 - Num(Tail(tok)) ELSE Num(tok)
RECURSIVE Parse(_)
Parse(t) == IF Len(t) = 0 THEN <<>>
            ELSE <<SignedNum(SubSeq(t, 1, CommaAt(t) - 1))>> \o Parse(SubSeq(t, CommaAt(t) + 1, Len(t)))

\* the last step ended a book_seats call / one that returned (did not raise)
BookCall == last.op = "book" /\ last.outcome # "running"
BookReturned == last.op = "book" /\ last.outcome \in {"ok", "none"}
\* self.seats of the instance that made the last call
Mirror == seats[last.r]
\* the last step ended a call of update_seat_status (by book_seats or direct)
UpdateCall == last.op \in {"book", "update"} /\ last.outcome \in {"ok", "raised"}
\* no call is in progress
Idle == \A r \in Runs : pc[r] = 0
\* only constructions and book_seats calls have been made so far (no method
\* was called directly on a live instance)
OnlyBookings == ndirect = 0

\* C1: a book_seats(k) call with 1 <= k <= c (c free seats before the call) that
\* the storage does not fail succeeds, returns k strictly ascending ids that
\* were all Free, marks exactly those Booked and nothing else, and leaves
\* count_available_seats() = c - k.
C1_BookChangesExactlyK ==
  (BookReturned /\ last.k >= 1 /\ last.k <= count_available_seats(pre.seats)) =>
    /\ last.outcome = "ok"
    /\ Len(last.ret) = last.k
    /\ Ascending(last.ret)
    /\ Elems(last.ret) \subseteq FreeOf(pre.seats)
    /\ BookedIn(Mirror) = BookedIn(pre.seats) \cup Elems(last.ret)
    /\ FreeOf(Mirror) = FreeOf(pre.seats) \ Elems(last.ret)
    /\ count_available_seats(Mirror) = count_available_seats(pre.seats) - last.k

\* C1 witness: a second booking of several seats succeeded
C1_Witness ==
  /\ BookCall /\ last.outcome = "ok" /\ last.k = 5 /\ Len(last.ret) = 5
  /\ ncalls = 2 /\ count_available_seats(pre.seats) < 71

\* C2: when some row has at least k free seats (k >= 1), the ids returned are
\* the first k free ids of the lowest-numbered such row, ascending; from the
\* reference initial state book(4) returns 3,4,5,6 and book(7) after it
\* returns 7..13.
C2_RowPreference ==
  /\ (BookReturned /\ last.k >= 1
        /\ \E rw \in RowNumbers : Cardinality(RowFree(pre.seats, rw)) >= last.k) =>
       LET ok == {rw \in RowNumbers : Cardinality(RowFree(pre.seats, rw)) >= last.k}
           lowest == CHOOSE rw \in ok : \A o \in ok : rw <= o
       IN /\ last.outcome = "ok"
          /\ Len(last.ret) = last.k
          /\ Ascending(last.ret)
          /\ Elems(last.ret) = LowestK(RowFree(pre.seats, lowest), last.k)
          /\ \A a, b \in Elems(last.ret) : a \div 7 = b \div 7
  /\ (BookReturned /\ last.k = 4 /\ BookedIn(pre.seats) = {0, 1, 2, 15, 22, 23, 33, 34, 35}) =>
       last.ret = <<3, 4, 5, 6>>
  /\ (BookReturned /\ last.k = 7
        /\ BookedIn(pre.seats) = {0, 1, 2, 3, 4, 5, 6, 15, 22, 23, 33, 34, 35}) =>
       last.ret = <<7, 8, 9, 10, 11, 12, 13>>

\* C2 witness: book(7) after book(4) from the reference initial state, which
\* skips row 0 (no free seat left) and takes row 1
C2_Witness ==
  /\ BookCall /\ last.outcome = "ok" /\ last.k = 7
  /\ BookedIn(pre.seats) = {0, 1, 2, 3, 4, 5, 6, 15, 22, 23, 33, 34, 35}
  /\ last.ret = <<7, 8, 9, 10, 11, 12, 13>>

\* C3: when k is at most the number of free seats and no row has k free seats,
\* the ids returned are the first k of all free ids in ascending order, and
\* exactly those seats become Booked.
C3_Fallback ==
  (BookReturned /\ last.k <= Cardinality(FreeOf(pre.seats))
     /\ \A rw \in RowNumbers : Cardinality(RowFree(pre.seats, rw)) < last.k) =>
    /\ last.outcome = "ok"
    /\ Len(last.ret) = last.k
    /\ Ascending(last.ret)
    /\ Elems(last.ret) = LowestK(FreeOf(pre.seats), last.k)
    /\ BookedIn(Mirror) = BookedIn(pre.seats) \cup Elems(last.ret)
    /\ Elems(last.ret) \subseteq BookedIn(db_seats)

\* C3 witness: a request no wider than a row that fell back to ids of two rows
C3_Witness ==
  /\ BookCall /\ last.outcome = "ok" /\ last.k >= 1 /\ last.k <= 7
  /\ \A rw \in RowNumbers : Cardinality(RowFree(pre.seats, rw)) < last.k
  /\ \E a, b \in Elems(last.ret) : a \div 7 # b \div 7

\* C4: book_seats(k) with k above the number of free seats returns None and
\* changes neither self.seats nor the seats table nor the reservations table.
C4_InsufficientNoChange ==
  (BookCall /\ last.k > Cardinality(FreeOf(pre.seats))) =>
    /\ last.outcome = "none"
    /\ Mirror = pre.seats
    /\ db_seats = pre.db_seats
    /\ db_res = pre.db_res

\* C4 witness: a small request refused after an earlier booking took most seats
C4_Witness ==
  /\ BookCall /\ last.outcome = "none" /\ last.k >= 1 /\ last.k <= 7
  /\ Cardinality(FreeOf(pre.seats)) > 0
  /\ Len(db_res) = 1

\* C5: book_seats(k) with k < 1 is reported as a failure and changes nothing.
C5_InvalidRequestRejected ==
  (BookReturned /\ last.k < 1) =>
    /\ last.outcome # "ok"
    /\ Mirror = pre.seats
    /\ db_seats = pre.db_seats
    /\ db_res = pre.db_res

\* C6: a successful book_seats call appends exactly one reservation record,
\* holding the ids it returned; a call that fails appends none.
C6_OneRecordPerSuccess ==
  BookCall =>
    IF last.outcome = "ok"
    THEN /\ Len(db_res) = Len(pre.db_res) + 1
         /\ SubSeq(db_res, 1, Len(pre.db_res)) = pre.db_res
         /\ Parse(db_res[Len(db_res)]) = last.ret
    ELSE db_res = pre.db_res

\* C7: whatever the interleaving of the runs' booking requests, no seat id is
\* in two reservation records (no double booking).
C7_NoDoubleBooking ==
  OnlyBookings =>
    \A a, b \in 1..Len(db_res) :
      a # b => Elems(Parse(db_res[a])) \cap Elems(Parse(db_res[b])) = {}

\* C8: when a write of the commit raises, self.seats is as it was before the
\* call and equals the persisted statuses.
C8_FaultLeavesMirror ==
  (BookCall /\ last.outcome = "raised") =>
    /\ Mirror = pre.seats
    /\ Mirror = db_seats

\* C9: in the durable state the seats Booked beyond the pre-booked ones are
\* exactly the seats of the reservation records: no booking has its seats
\* persisted without its record, or its record without its seats.
C9_DurableAtomic ==
  (OnlyBookings /\ DOMAIN db_seats # {}) =>
    BookedIn(db_seats) \ {0, 1, 2, 15, 22, 23, 33, 34, 35}
      = UNION {Elems(Parse(db_res[j])) : j \in 1..Len(db_res)}

\* C10: seat status is monotonic across initialize, book_seats, load/reload
\* and display: in every step a seat Booked in the seats table stays Booked
\* there, and one Booked in a live instance's self.seats (what display_seats
\* shows) stays Booked there; a seat Booked in the self.seats of an instance
\* with no call in progress is Booked in what a later load gives (the
\* self.seats of an instance constructed then, and the list load_seats()
\* returns to that instance); and a seat turns Booked only through a booking
\* that commits: the table changes only in a step of a book_seats call that
\* returns its ids (or of a direct update_seat_status or create_tables, not
\* operations of the claim), and a book_seats call that does not return ids
\* leaves self.seats as it was.
C10_Monotonic ==
  [][ /\ \A i \in DOMAIN db_seats : db_seats[i] = 1 => db_seats'[i] = 1
      /\ \A r \in Runs : (inst[r] = "live" /\ inst'[r] = "live") =>
           \A i \in DOMAIN seats[r] : seats[r][i] = 1 => seats'[r][i] = 1
      /\ \A r \in Runs : (inst[r] = "building" /\ inst'[r] = "live") =>
           \A q \in Runs : (inst[q] = "live" /\ pc[q] = 0) =>
             \A i \in DOMAIN seats[q] : seats[q][i] = 1 => seats'[r][i] = 1
      /\ (last'.op = "load" /\ last'.outcome = "ok") =>
           \A i \in DOMAIN seats[last'.r] : seats[last'.r][i] = 1 => last'.list[i] = 1
      /\ (DOMAIN db_seats # {} /\ db_seats' # db_seats
            /\ last'.op \notin {"update", "create"}) =>
           (last'.op = "book" /\ last'.outcome = "ok")
      /\ (last'.op = "book" /\ last'.outcome \in {"none", "raised"}) =>
           seats'[last'.r] = pre'.seats
    ]_vars

\* C11: a step of a construction that changes an empty seats table writes
\* exactly the seats 0..79 with exactly 0,1,2,15,22,23,33,34,35 Booked; a
\* construction returns only when the table has the 80 seats, these nine
\* Booked; every step of a construction that finds rows (also one that
\* raises) leaves the seats table as it was, and no step of a construction
\* changes the reservations table.
C11_InitOnceIdempotent ==
  last.op = "init" =>
    /\ db_res = pre.db_res
    /\ IF DOMAIN pre.db_seats = {}
       THEN \/ db_seats = pre.db_seats /\ last.outcome # "ok"
            \/ /\ DOMAIN db_seats = 0..79
               /\ BookedIn(db_seats) = {0, 1, 2, 15, 22, 23, 33, 34, 35}
               /\ FreeOf(db_seats) = (0..79) \ {0, 1, 2, 15, 22, 23, 33, 34, 35}
       ELSE db_seats = pre.db_seats
    /\ last.outcome = "ok" =>
         /\ DOMAIN db_seats = 0..79
         /\ {0, 1, 2, 15, 22, 23, 33, 34, 35} \subseteq BookedIn(db_seats)

\* C11 witness: a construction after a committed booking of seats that are
\* not pre-booked, which stay Booked, the log keeping its record
C11_Witness ==
  /\ last.op = "init" /\ last.outcome = "ok" /\ last.r = 2
  /\ DOMAIN pre.db_seats # {}
  /\ Len(db_res) = 1
  /\ BookedIn(db_seats) = {0, 1, 2, 15, 22, 23, 33, 34, 35} \cup Elems(Parse(db_res[1]))
  /\ Cardinality(BookedIn(db_seats)) > 9

\* C12: after book_seats calls none of which raised, an instance constructed
\* on the same database (a restart) loads a self.seats, and so a
\* display_seats(), identical to that of a live instance that made the
\* bookings (one with no call in progress whose self.seats lacks no booking
\* of the seats table).
C12_RoundTrip ==
  (/\ last.op = "init" /\ last.outcome = "ok"
   /\ nraised = 0 /\ OnlyBookings /\ DOMAIN pre.db_seats # {}) =>
    \A q \in Runs \ {last.r} :
      (/\ inst[q] = "live" /\ pc[q] = 0
       /\ BookedIn(db_seats) \subseteq BookedIn(seats[q])) =>
        /\ seats[last.r] = seats[q]
        /\ display_seats(seats[last.r]) = display_seats(seats[q])

\* C12 witness: run 2 is constructed after run 1 booked, and displays the
\* booked seats as run 1 does
C12_Witness ==
  /\ last.op = "init" /\ last.outcome = "ok" /\ last.r = 2
  /\ nraised = 0 /\ OnlyBookings /\ inst[1] = "live" /\ pc[1] = 0
  /\ ncalls = 2 /\ Len(db_res) = 2
  /\ display_seats(seats[2]) = display_seats(seats[1])
  /\ \E i \in 0..79 : i \notin PreBooked /\ display_seats(seats[2])[i] = "X"

\* C13: whenever no call is in progress (so no commit is), after
\* constructions and book_seats calls (successful or failed), self.seats of
\* every instance equals the persisted statuses of the seats table.
C13_MirrorEqualsStore ==
  (OnlyBookings /\ Idle) => \A r \in Runs : inst[r] = "live" => seats[r] = db_seats

\* C14: after constructions and book_seats calls, every seat id of every
\* reservation record is Booked in the seats table and was Free there
\* immediately before the record was created, and the id sets of the records
\* are pairwise disjoint and disjoint from the pre-booked seats.
C14_RecordSeats ==
  OnlyBookings =>
    /\ \A a \in 1..Len(db_res) :
         /\ Elems(Parse(db_res[a])) \subseteq BookedIn(db_seats)
         /\ Elems(Parse(db_res[a])) \cap {0, 1, 2, 15, 22, 23, 33, 34, 35} = {}
         /\ \A b \in 1..Len(db_res) :
              a < b => Elems(Parse(db_res[a])) \cap Elems(Parse(db_res[b])) = {}
    /\ (BookCall /\ last.outcome = "ok") =>
         Elems(last.ret) \subseteq FreeOf(pre.db_seats)

\* C15: update_seat_status validates its input: a call (by book_seats or
\* direct) whose ids are not all in [0, 80), or not all Free in the seats
\* table, raises and changes nothing (neither self.seats nor the tables).
C15_SetBookedValidates ==
  (/\ UpdateCall
   /\ \E i \in Elems(last.ids) : i \notin 0..79 \/ pre.db_seats[i] # 0) =>
    /\ last.outcome = "raised"
    /\ Mirror = pre.seats
    /\ db_seats = pre.db_seats
    /\ db_res = pre.db_res

\* C16: the only upper bound on the request is the free count: a returning
\* book_seats(k) with 7 < k <= free count finds no row with k free seats,
\* succeeds and returns the k lowest free ids in ascending order; and for
\* k >= 1 the call returns None exactly when k exceeds the free count.
C16_NoUpperBoundButFree ==
  /\ (BookReturned /\ last.k > 7 /\ last.k <= Cardinality(FreeOf(pre.seats))) =>
       /\ last.outcome = "ok"
       /\ \A rw \in RowNumbers : Cardinality(RowFree(pre.seats, rw)) < last.k
       /\ Len(last.ret) = last.k
       /\ Ascending(last.ret)
       /\ Elems(last.ret) = LowestK(FreeOf(pre.seats), last.k)
       /\ BookedIn(Mirror) = BookedIn(pre.seats) \cup Elems(last.ret)
  /\ (BookCall /\ last.k >= 1) =>
       (last.outcome = "none" <=> last.k > Cardinality(FreeOf(pre.seats)))
C16_Witness ==
  /\ BookReturned /\ last.outcome = "ok" /\ ncalls = 2
  /\ last.k > 7 /\ last.k < Cardinality(FreeOf(pre.seats))
  /\ Cardinality(FreeOf(pre.seats)) < 71
  /\ Len(last.ret) = last.k /\ last.ret[1] > 3

\* C18: the reservations table is append-only: whatever the last operation
\* was, the records it started from are all still there, unmodified and in
\* the same positions (reservation_id is the position, so a new record's id
\* is greater than every earlier one), and the earlier log is a prefix of
\* the log now.
C18_LogAppendOnly ==
  /\ Len(db_res) >= Len(pre.db_res)
  /\ \A j \in 1..Len(pre.db_res) : db_res[j] = pre.db_res[j]
  /\ SubSeq(db_res, 1, Len(pre.db_res)) = pre.db_res
C18_Witness ==
  /\ BookCall /\ last.outcome = "ok" /\ ncalls = 2
  /\ Len(pre.db_res) = 1 /\ Len(db_res) = 2
  /\ pre.db_res[1] # <<>>
  /\ db_res[1] = pre.db_res[1]
  /\ db_res[2] = Join(last.ret) /\ db_res[2] # db_res[1]

\* C19: while a single instance is the only one that has ever run, only
\* book_seats has been called on it and no call is in progress, the seats
\* Booked in its self.seats and
\* in the seats table are exactly the
\* pre-booked seats together with the seat ids of all reservation records,
\* and count_available_seats() is 71 minus the number of seat ids recorded.
C19_Accounting ==
  LET recorded == UNION {Elems(Parse(db_res[j])) : j \in 1..Len(db_res)}
      RECURSIVE total(_)
      total(j) == IF j = 0 THEN 0 ELSE Len(Parse(db_res[j])) + total(j - 1)
  IN (/\ OnlyBookings /\ inst[1] = "live" /\ pc[1] = 0
      /\ \A r \in Runs \ {1} : inst[r] = "none") =>
       /\ BookedIn(seats[1]) = {0, 1, 2, 15, 22, 23, 33, 34, 35} \cup recorded
       /\ BookedIn(db_seats) = {0, 1, 2, 15, 22, 23, 33, 34, 35} \cup recorded
       /\ Cardinality(BookedIn(seats[1])) = 9 + total(Len(db_res))
       /\ count_available_seats(seats[1]) = 71 - total(Len(db_res))

\* C20: the free count never goes up and exhaustion is final: a book_seats
\* call leaves count_available_seats() no higher than it was, a newly
\* constructed instance reports no more free seats than any instance already
\* running that has no call in progress, a call with k >= 1 made when the caller sees fewer than k free
\* seats returns None, and once the seats table has no Free seat every
\* book_seats(k) with k >= 1 returns None and changes nothing.
C20_MonotonicExhaustion ==
  /\ BookCall => count_available_seats(Mirror) <= count_available_seats(pre.seats)
  /\ (last.op = "init" /\ last.outcome = "ok") =>
       \A q \in Runs : (inst[q] = "live" /\ pc[q] = 0) =>
         count_available_seats(Mirror) <= count_available_seats(seats[q])
  /\ (BookCall /\ last.k >= 1 /\ last.k > count_available_seats(pre.seats)) =>
       last.outcome = "none"
  /\ (BookCall /\ last.k >= 1 /\ FreeOf(pre.db_seats) = {}) =>
       /\ last.outcome = "none"
       /\ Mirror = pre.seats
       /\ db_seats = pre.db_seats
       /\ db_res = pre.db_res
====
